---- MODULE Spec2Model ----
(***************************************************************************)
(* Editor state machine of the drag-and-drop canvas (src/app/page.tsx,      *)
(* second draft, lines 216-556): the Home component's state (blocks,        *)
(* history, currentIndex), the per-block `position` refs of CanvasBlock,    *)
(* the registry of DOM handles (blockRefs) and the `pairs` state of         *)
(* ConnectionLines.                                                         *)
(*                                                                         *)
(* One action models one UI event: the handler that runs, the React render *)
(* that follows its state updates, and the passive effects of that render  *)
(* in React's order (children of Canvas in sibling order: ConnectionLines  *)
(* first, then each CanvasBlock).                                           *)
(*                                                                         *)
(* blocksRef (line 451) is written by the handlers and read nowhere; it is *)
(* left out.  Math.hypot is modelled by the sum of squares, which orders   *)
(* distances the same way.  `pairs` keeps the ids of each [a, b].          *)
(***************************************************************************)
EXTENDS Integers, Sequences, FiniteSets, TLC

VARIABLES blocks, history, currentIndex, blockRefs, position, pairs,
          nextId, dragItem, dragStart, lastEvent, edits

vars == <<blocks, history, currentIndex, blockRefs, position, pairs,
          nextId, dragItem, dragStart, lastEvent, edits>>

\* ---------------------------------------------------------------- bounds
\* uuidv4() is called at most MaxIds times
MaxIds == 2
\* at most MaxEdits hover events and right-clicks are delivered in a session
MaxEdits == 1

\* canvas coordinates (both axes), the points where toolbox blocks are
\* released, and the pointer deltas (dx, dy) of a drag
Coords == {0, 1}
DropPoints == {<<0, 0>>, <<1, 0>>}
Deltas == {<<1, 0>>, <<0, 1>>, <<0 - 1, 0 - 1>>}

\* the canvases the Connection Resolver is applied to on its own: at most
\* MaxCanvas blocks, released at these points
MaxCanvas == 3
ResolverPoints == {<<0, 0>>, <<5, 0>>, <<6, 0>>, <<3, 4>>, <<0, 5>>}

\* ---------------------------------------------------------------- Block
BlockTypes == {"blockA", "blockB"}

Label(type) == "Block " \o (IF type = "blockA" THEN "A" ELSE "B")

\* showMessage is optional: absent ("undefined") until the first toggle;
\* JavaScript's ! maps undefined and false to true, true to false
Not(flag) == IF flag = "true" THEN "false" ELSE "true"

IdsOf(s) == {s[i].id : i \in 1..Len(s)}

HasA(s) == \E i \in 1..Len(s) : s[i].type = "blockA"

\* the values a handler's closure captured at the last render
Home == [blocks |-> blocks, history |-> history, currentIndex |-> currentIndex]

\* ---------------------------------------------------------------- Home
\* moveBlock whose map forgets to compare the id
moveBlock_MovesAll(prev, id, x, y) ==
    [i \in 1..Len(prev) |-> [prev[i] EXCEPT !.x = x, !.y = y]]

moveBlock(prev, id, x, y) ==
    [i \in 1..Len(prev) |->
        IF prev[i].id = id THEN [prev[i] EXCEPT !.x = x, !.y = y] ELSE prev[i]]

\* toggleMessage whose map forgets to compare the id
toggleMessage_All(prev, id) ==
    [i \in 1..Len(prev) |->
        [prev[i] EXCEPT !.showMessage = Not(prev[i].showMessage)]]

toggleMessage(prev, id) ==
    [i \in 1..Len(prev) |->
        IF prev[i].id = id
        THEN [prev[i] EXCEPT !.showMessage = Not(prev[i].showMessage)]
        ELSE prev[i]]

\* handleDropBlock that records the canvas as it was before the new block
handleDropBlock_StaleSnapshot(h, type, x, y, id) ==
    IF type = "blockB" /\ ~HasA(h.blocks)
    THEN [blocks |-> h.blocks, history |-> h.history,
          currentIndex |-> h.currentIndex, alert |-> TRUE]
    ELSE LET newBlock == [id |-> id, type |-> type, label |-> Label(type),
                          x |-> x, y |-> y, showMessage |-> "undefined"]
             newBlocks == Append(h.blocks, newBlock)
             updatedHistory ==
                 Append(SubSeq(h.history, 1, h.currentIndex + 1), h.blocks)
         IN  [blocks |-> newBlocks, history |-> updatedHistory,
              currentIndex |-> Len(updatedHistory) - 1, alert |-> FALSE]

\* handleDropBlock without the dependency rule
handleDropBlock_NoGuard(h, type, x, y, id) ==
    LET newBlock == [id |-> id, type |-> type, label |-> Label(type),
                     x |-> x, y |-> y, showMessage |-> "undefined"]
        newBlocks == Append(h.blocks, newBlock)
        updatedHistory ==
            Append(SubSeq(h.history, 1, h.currentIndex + 1), newBlocks)
    IN  [blocks |-> newBlocks, history |-> updatedHistory,
         currentIndex |-> Len(updatedHistory) - 1, alert |-> FALSE]

\* handleDropBlock whose rule looks for Block A in the whole history
handleDropBlock_GuardOnHistory(h, type, x, y, id) ==
    IF type = "blockB" /\ ~(\E i \in 1..Len(h.history) : HasA(h.history[i]))
    THEN [blocks |-> h.blocks, history |-> h.history,
          currentIndex |-> h.currentIndex, alert |-> TRUE]
    ELSE LET newBlock == [id |-> id, type |-> type, label |-> Label(type),
                          x |-> x, y |-> y, showMessage |-> "undefined"]
             newBlocks == Append(h.blocks, newBlock)
             updatedHistory ==
                 Append(SubSeq(h.history, 1, h.currentIndex + 1), newBlocks)
         IN  [blocks |-> newBlocks, history |-> updatedHistory,
              currentIndex |-> Len(updatedHistory) - 1, alert |-> FALSE]

\* handleDropBlock that stores the coordinates swapped
handleDropBlock_SwapXY(h, type, x, y, id) ==
    IF type = "blockB" /\ ~HasA(h.blocks)
    THEN [blocks |-> h.blocks, history |-> h.history,
          currentIndex |-> h.currentIndex, alert |-> TRUE]
    ELSE LET newBlock == [id |-> id, type |-> type, label |-> Label(type),
                          x |-> y, y |-> x, showMessage |-> "undefined"]
             newBlocks == Append(h.blocks, newBlock)
             updatedHistory ==
                 Append(SubSeq(h.history, 1, h.currentIndex + 1), newBlocks)
         IN  [blocks |-> newBlocks, history |-> updatedHistory,
              currentIndex |-> Len(updatedHistory) - 1, alert |-> FALSE]

\* handleDropBlock that appends to the whole history, redo branch included
handleDropBlock_NoTruncate(h, type, x, y, id) ==
    IF type = "blockB" /\ ~HasA(h.blocks)
    THEN [blocks |-> h.blocks, history |-> h.history,
          currentIndex |-> h.currentIndex, alert |-> TRUE]
    ELSE LET newBlock == [id |-> id, type |-> type, label |-> Label(type),
                          x |-> x, y |-> y, showMessage |-> "undefined"]
             newBlocks == Append(h.blocks, newBlock)
             updatedHistory == Append(h.history, newBlocks)
         IN  [blocks |-> newBlocks, history |-> updatedHistory,
              currentIndex |-> Len(updatedHistory) - 1, alert |-> FALSE]

\* handleDropBlock with history.slice(currentIndex) for slice(0, currentIndex + 1)
handleDropBlock_SliceFromCursor(h, type, x, y, id) ==
    IF type = "blockB" /\ ~HasA(h.blocks)
    THEN [blocks |-> h.blocks, history |-> h.history,
          currentIndex |-> h.currentIndex, alert |-> TRUE]
    ELSE LET newBlock == [id |-> id, type |-> type, label |-> Label(type),
                          x |-> x, y |-> y, showMessage |-> "undefined"]
             newBlocks == Append(h.blocks, newBlock)
             updatedHistory ==
                 Append(SubSeq(h.history, h.currentIndex + 1, Len(h.history)),
                        newBlocks)
         IN  [blocks |-> newBlocks, history |-> updatedHistory,
              currentIndex |-> Len(updatedHistory) - 1, alert |-> FALSE]

\* handleDropBlock that takes the id of the toolbox item for uuidv4()
handleDropBlock_ToolboxId(h, type, x, y, id) ==
    IF type = "blockB" /\ ~HasA(h.blocks)
    THEN [blocks |-> h.blocks, history |-> h.history,
          currentIndex |-> h.currentIndex, alert |-> TRUE]
    ELSE LET newBlock == [id |-> IF type = "blockA" THEN 1 ELSE 2, type |-> type,
                          label |-> Label(type),
                          x |-> x, y |-> y, showMessage |-> "undefined"]
             newBlocks == Append(h.blocks, newBlock)
             updatedHistory ==
                 Append(SubSeq(h.history, 1, h.currentIndex + 1), newBlocks)
         IN  [blocks |-> newBlocks, history |-> updatedHistory,
              currentIndex |-> Len(updatedHistory) - 1, alert |-> FALSE]

\* h is the captured render state, id the value uuidv4() returns
\* a placement that extends the snapshot at the cursor, not the live canvas
handleDropBlock_FromSnapshot(h, type, x, y, id) ==
    IF type = "blockB" /\ ~HasA(h.blocks)
    THEN [blocks |-> h.blocks, history |-> h.history,
          currentIndex |-> h.currentIndex, alert |-> TRUE]
    ELSE LET newBlock == [id |-> id, type |-> type, label |-> Label(type),
                          x |-> x, y |-> y, showMessage |-> "undefined"]
             newBlocks == Append(h.history[h.currentIndex + 1], newBlock)
             updatedHistory ==
                 Append(SubSeq(h.history, 1, h.currentIndex + 1), newBlocks)
         IN  [blocks |-> newBlocks, history |-> updatedHistory,
              currentIndex |-> Len(updatedHistory) - 1, alert |-> FALSE]

handleDropBlock(h, type, x, y, id) ==
    IF type = "blockB" /\ ~HasA(h.blocks)
    THEN [blocks |-> h.blocks, history |-> h.history,
          currentIndex |-> h.currentIndex, alert |-> TRUE]
    ELSE LET newBlock == [id |-> id, type |-> type, label |-> Label(type),
                          x |-> x, y |-> y, showMessage |-> "undefined"]
             newBlocks == Append(h.blocks, newBlock)
             updatedHistory ==
                 Append(SubSeq(h.history, 1, h.currentIndex + 1), newBlocks)
         IN  [blocks |-> newBlocks, history |-> updatedHistory,
              currentIndex |-> Len(updatedHistory) - 1, alert |-> FALSE]

\* handleUndo that moves the cursor and forgets setBlocks
handleUndo_KeepBlocks(h) ==
    IF h.currentIndex > 0
    THEN [blocks |-> h.blocks, history |-> h.history,
          currentIndex |-> h.currentIndex - 1]
    ELSE h

\* handleUndo that shows the first snapshot
handleUndo_ToStart(h) ==
    IF h.currentIndex > 0
    THEN LET newIndex == h.currentIndex - 1
             prevState == h.history[1]
         IN  [blocks |-> prevState, history |-> h.history, currentIndex |-> newIndex]
    ELSE h

handleUndo(h) ==
    IF h.currentIndex > 0
    THEN LET newIndex == h.currentIndex - 1
             prevState == h.history[newIndex + 1]
         IN  [blocks |-> prevState, history |-> h.history, currentIndex |-> newIndex]
    ELSE h

\* handleRedo that reads the snapshot at the old cursor
handleRedo_OffByOne(h) ==
    IF h.currentIndex < Len(h.history) - 1
    THEN LET newIndex == h.currentIndex + 1
             nextState == h.history[newIndex]
         IN  [blocks |-> nextState, history |-> h.history, currentIndex |-> newIndex]
    ELSE h

\* handleRedo that clamps the index where the source guards it
handleRedo_Clamped(h) ==
    LET newIndex == IF h.currentIndex < Len(h.history) - 1
                    THEN h.currentIndex + 1 ELSE Len(h.history) - 1
        nextState == h.history[newIndex + 1]
    IN  [blocks |-> nextState, history |-> h.history, currentIndex |-> newIndex]

handleRedo(h) ==
    IF h.currentIndex < Len(h.history) - 1
    THEN LET newIndex == h.currentIndex + 1
             nextState == h.history[newIndex + 1]
         IN  [blocks |-> nextState, history |-> h.history, currentIndex |-> newIndex]
    ELSE h

undoDisabled == currentIndex = 0

redoDisabled == currentIndex = Len(history) - 1

\* ---------------------------------------------------------------- ConnectionLines
Null == [a |-> 0, dist |-> 0 - 1]

\* offsetLeft/offsetTop of a registered handle: the style left/top of a
\* mounted block, 0 for a node that is no longer in the document
offset(refs, b) == IF refs[b.id] = "mounted" THEN <<b.x, b.y>> ELSE <<0, 0>>

hypot(dx, dy) == dx * dx + dy * dy

\* reduce with dist <= nearest.dist: the last of several equally near wins
RECURSIVE reduce_LastWins(_, _, _, _)
reduce_LastWins(aBlocks, b, refs, n) ==
    IF n = 0 THEN Null
    ELSE LET nearest == reduce_LastWins(aBlocks, b, refs, n - 1)
             a == aBlocks[n]
         IN  IF a.id \notin DOMAIN refs \/ b.id \notin DOMAIN refs THEN nearest
             ELSE LET pa == offset(refs, a)
                      pb == offset(refs, b)
                      dist == hypot(pa[1] - pb[1], pa[2] - pb[2])
                  IN  IF nearest = Null \/ dist <= nearest.dist
                      THEN [a |-> a.id, dist |-> dist]
                      ELSE nearest

RECURSIVE reduce(_, _, _, _)
reduce(aBlocks, b, refs, n) ==
    IF n = 0 THEN Null
    ELSE LET nearest == reduce(aBlocks, b, refs, n - 1)
             a == aBlocks[n]
         IN  IF a.id \notin DOMAIN refs \/ b.id \notin DOMAIN refs THEN nearest
             ELSE LET pa == offset(refs, a)
                      pb == offset(refs, b)
                      dist == hypot(pa[1] - pb[1], pa[2] - pb[2])
                  IN  IF nearest = Null \/ dist < nearest.dist
                      THEN [a |-> a.id, dist |-> dist]
                      ELSE nearest

RECURSIVE forEach(_, _, _, _)
forEach(bBlocks, aBlocks, refs, n) ==
    IF n = 0 THEN <<>>
    ELSE LET newPairs == forEach(bBlocks, aBlocks, refs, n - 1)
             b == bBlocks[n]
             nearestA == reduce(aBlocks, b, refs, Len(aBlocks))
         IN  IF nearestA # Null THEN Append(newPairs, <<nearestA.a, b.id>>)
             ELSE newPairs

IsA(b) == b.type = "blockA"

IsB(b) == b.type = "blockB"

updateConnections(blks, refs) ==
    LET aBlocks == SelectSeq(blks, IsA)
        bBlocks == SelectSeq(blks, IsB)
    IN  forEach(bBlocks, aBlocks, refs, Len(bBlocks))

\* ---------------------------------------------------------------- render
\* the handles after React committed newBlocks to the DOM: the node of an
\* unmounted block stays in the registry, detached
\* committed where an unmounting block takes its handle out of the registry
committed_Unregisters(refs, newBlocks) ==
    [id \in DOMAIN refs \cap IdsOf(newBlocks) |-> refs[id]]

committed(refs, newBlocks) ==
    [id \in DOMAIN refs |-> IF id \in IdsOf(newBlocks) THEN refs[id] ELSE "detached"]

\* the effect of every CanvasBlock in ids: blockRefs.current[id] = ref
registerRef(refs, ids) ==
    [id \in DOMAIN refs \cup ids |-> IF id \in ids THEN "mounted" ELSE refs[id]]

\* useRef({x: block.x, y: block.y}) of a CanvasBlock that mounts; the ref of a
\* block that stays mounted is kept, that of an unmounted block is dropped
positionRefs(pos, newBlocks) ==
    [id \in IdsOf(newBlocks) |->
        IF id \in DOMAIN pos THEN pos[id]
        ELSE LET b == CHOOSE c \in {newBlocks[i] : i \in 1..Len(newBlocks)} : c.id = id
             IN  <<b.x, b.y>>]

\* the render that follows setBlocks(newBlocks), then the effects in sibling
\* order: ConnectionLines' first, the mounting CanvasBlocks' after it
Canvas(oldBlocks, refs, pos, newBlocks) ==
    [pairs |-> updateConnections(newBlocks, committed(refs, newBlocks)),
     blockRefs |-> registerRef(committed(refs, newBlocks),
                               IdsOf(newBlocks) \ IdsOf(oldBlocks)),
     position |-> positionRefs(pos, newBlocks)]

Render(newBlocks) ==
    LET c == Canvas(blocks, blockRefs, position, newBlocks)
    IN  /\ blocks' = newBlocks
        /\ pairs' = c.pairs
        /\ blockRefs' = c.blockRefs
        /\ position' = c.position

Event(op, type, id, x, y) == [op |-> op, type |-> type, id |-> id, x |-> x, y |-> y]

\* ---------------------------------------------------------------- events
Init ==
    /\ blocks = <<>>
    /\ history = <<<<>>>>
    /\ currentIndex = 0
    /\ blockRefs = <<>>
    /\ position = <<>>
    /\ pairs = <<>>
    /\ nextId = 1
    /\ dragItem = {}
    /\ dragStart = <<0, 0>>
    /\ lastEvent = Event("init", "", 0, 0, 0)
    /\ edits = 0

\* a toolbox block released over the canvas: Canvas' drop calls onDropBlock
DropAccepted(type, x, y) ==
    /\ dragItem = {}
    /\ nextId <= MaxIds
    /\ LET r == handleDropBlock(Home, type, x, y, nextId)
       IN  /\ ~r.alert
           /\ Render(r.blocks)
           /\ history' = r.history
           /\ currentIndex' = r.currentIndex
    /\ nextId' = nextId + 1
    /\ lastEvent' = Event("drop", type, nextId, x, y)
    /\ UNCHANGED <<dragItem, dragStart, edits>>

DropRejected(type, x, y) ==
    /\ dragItem = {}
    /\ LET r == handleDropBlock(Home, type, x, y, nextId)
       IN  /\ r.alert
           /\ blocks' = r.blocks
           /\ history' = r.history
           /\ currentIndex' = r.currentIndex
    /\ lastEvent' = Event("MissingDependency", type, 0, 0, 0)
    /\ UNCHANGED <<blockRefs, position, pairs, nextId, dragItem, dragStart, edits>>

Undo ==
    /\ dragItem = {}
    /\ ~undoDisabled
    /\ LET r == handleUndo(Home)
       IN  /\ Render(r.blocks)
           /\ history' = r.history
           /\ currentIndex' = r.currentIndex
    /\ lastEvent' = Event("undo", "", 0, 0, 0)
    /\ UNCHANGED <<nextId, dragItem, dragStart, edits>>

Redo ==
    /\ dragItem = {}
    /\ ~redoDisabled
    /\ LET r == handleRedo(Home)
       IN  /\ Render(r.blocks)
           /\ history' = r.history
           /\ currentIndex' = r.currentIndex
    /\ lastEvent' = Event("redo", "", 0, 0, 0)
    /\ UNCHANGED <<nextId, dragItem, dragStart, edits>>

\* RightClick that flips the flag inside the stored snapshot as well
RightClick_InPlace(id) ==
    /\ dragItem = {}
    /\ edits < MaxEdits
    /\ id \in IdsOf(blocks)
    /\ Render(toggleMessage(blocks, id))
    /\ history' = [history EXCEPT ![currentIndex + 1] = toggleMessage(@, id)]
    /\ edits' = edits + 1
    /\ lastEvent' = Event("toggle", "", id, 0, 0)
    /\ UNCHANGED <<currentIndex, nextId, dragItem, dragStart>>

RightClick(id) ==
    /\ dragItem = {}
    /\ edits < MaxEdits
    /\ id \in IdsOf(blocks)
    /\ Render(toggleMessage(blocks, id))
    /\ edits' = edits + 1
    /\ lastEvent' = Event("toggle", "", id, 0, 0)
    /\ UNCHANGED <<history, currentIndex, nextId, dragItem, dragStart>>

\* the user starts to drag canvas block i of the live state (drags are started
\* only while the edit budget still allows a hover to be delivered)
BeginDrag(i) ==
    /\ dragItem = {}
    /\ edits < MaxEdits
    /\ i \in 1..Len(blocks)
    /\ dragItem' = {blocks[i].id}
    /\ dragStart' = <<blocks[i].x, blocks[i].y>>
    /\ lastEvent' = Event("beginDrag", "", blocks[i].id, 0, 0)
    /\ UNCHANGED <<blocks, history, currentIndex, blockRefs, position, pairs, nextId,
                   edits>>

\* hover that adds the delta to where the dragged block is now
hover_Accumulates(blks, pos, item, target, dx, dy) ==
    LET b == CHOOSE c \in {blks[i] : i \in 1..Len(blks)} : c.id = item
    IN  moveBlock(blks, item, b.x + dx, b.y + dy)

\* the canvas state hover hands to setBlocks: pos holds position.current of
\* every mounted CanvasBlock, target is the one under the pointer
hover(blks, pos, item, target, dx, dy) ==
    LET newX == pos[target][1] + dx
        newY == pos[target][2] + dy
    IN  moveBlock(blks, item, newX, newY)

\* Hover that commits every frame to the history
Hover_Commits(target, dx, dy) ==
    /\ dragItem # {}
    /\ edits < MaxEdits
    /\ target \in IdsOf(blocks)
    /\ position[target][1] + dx \in Coords
    /\ position[target][2] + dy \in Coords
    /\ \E item \in dragItem :
          /\ Render(hover(blocks, position, item, target, dx, dy))
          /\ history' = Append(SubSeq(history, 1, currentIndex + 1),
                               hover(blocks, position, item, target, dx, dy))
    /\ currentIndex' = currentIndex + 1
    /\ edits' = edits + 1
    /\ lastEvent' = Event("hover", "", target, dx, dy)
    /\ UNCHANGED <<nextId, dragItem, dragStart>>

\* hover of the CanvasBlock `target` under the pointer; item.id is the dragged block
Hover(target, dx, dy) ==
    /\ dragItem # {}
    /\ edits < MaxEdits
    /\ target \in IdsOf(blocks)
    /\ position[target][1] + dx \in Coords
    /\ position[target][2] + dy \in Coords
    /\ \E item \in dragItem : Render(hover(blocks, position, item, target, dx, dy))
    /\ edits' = edits + 1
    /\ lastEvent' = Event("hover", "", target, dx, dy)
    /\ UNCHANGED <<history, currentIndex, nextId, dragItem, dragStart>>

\* drop of the CanvasBlock `target` under the pointer at release; the backend
\* delivers it after a hover of the same target with the same delta
DropOnBlock(target) ==
    /\ dragItem # {}
    /\ lastEvent.op = "hover"
    /\ lastEvent.id = target
    /\ position' = [position EXCEPT ![target] =
                        <<position[target][1] + lastEvent.x,
                          position[target][2] + lastEvent.y>>]
    /\ position'[target][1] \in Coords
    /\ position'[target][2] \in Coords
    /\ dragItem' = {}
    /\ dragStart' = <<0, 0>>
    /\ lastEvent' = Event("dropOnBlock", "", target, lastEvent.x, lastEvent.y)
    /\ UNCHANGED <<blocks, history, currentIndex, blockRefs, pairs, nextId, edits>>

\* the pointer is released where no CanvasBlock is the drop target
EndDrag ==
    /\ dragItem # {}
    /\ dragItem' = {}
    /\ dragStart' = <<0, 0>>
    /\ lastEvent' = Event("endDrag", "", 0, 0, 0)
    /\ UNCHANGED <<blocks, history, currentIndex, blockRefs, position, pairs,
                   nextId, edits>>

\* the window's resize listener runs updateConnections of the last effect
Resize ==
    /\ dragItem = {}
    /\ pairs' = updateConnections(blocks, blockRefs)
    /\ lastEvent' = Event("resize", "", 0, 0, 0)
    /\ UNCHANGED <<blocks, history, currentIndex, blockRefs, position, nextId,
                   dragItem, dragStart, edits>>

Next ==
    \/ \E type \in BlockTypes, p \in DropPoints : DropAccepted(type, p[1], p[2])
    \/ \E type \in BlockTypes, p \in DropPoints : DropRejected(type, p[1], p[2])
    \/ Undo
    \/ Redo
    \/ \E id \in 1..MaxIds : RightClick(id)
    \/ \E i \in 1..MaxIds : BeginDrag(i)
    \/ \E target \in 1..MaxIds, d \in Deltas : Hover(target, d[1], d[2])
    \/ \E target \in 1..MaxIds : DropOnBlock(target)
    \/ EndDrag
    \/ Resize

Spec == Init /\ [][Next]_vars

\* ---------------------------------------------------------------- resolver runs
\* the session after n toolbox blocks were released one after the other
RECURSIVE AfterDrops(_, _, _)
AfterDrops(types, pts, n) ==
    IF n = 0
    THEN [blocks |-> <<>>, history |-> <<<<>>>>, currentIndex |-> 0,
          blockRefs |-> <<>>, position |-> <<>>, pairs |-> <<>>,
          lastEvent |-> Event("init", "", 0, 0, 0)]
    ELSE LET s == AfterDrops(types, pts, n - 1)
             h == [blocks |-> s.blocks, history |-> s.history,
                   currentIndex |-> s.currentIndex]
             r == handleDropBlock(h, types[n], pts[n][1], pts[n][2], n)
             c == Canvas(s.blocks, s.blockRefs, s.position, r.blocks)
         IN  IF r.alert THEN s
             ELSE [blocks |-> r.blocks, history |-> r.history,
                   currentIndex |-> r.currentIndex, blockRefs |-> c.blockRefs,
                   position |-> c.position, pairs |-> c.pairs,
                   lastEvent |-> Event("drop", types[n], n, pts[n][1], pts[n][2])]

ResolverInit ==
    \E n \in 0..MaxCanvas :
        \E types \in [1..n -> BlockTypes], pts \in [1..n -> ResolverPoints] :
            LET s == AfterDrops(types, pts, n)
            IN  /\ Len(s.blocks) = n
                /\ blocks = s.blocks
                /\ history = s.history
                /\ currentIndex = s.currentIndex
                /\ blockRefs = s.blockRefs
                /\ position = s.position
                /\ pairs = s.pairs
                /\ nextId = n + 1
                /\ dragItem = {}
                /\ dragStart = <<0, 0>>
                /\ lastEvent = s.lastEvent
                /\ edits = 0

ResolverNext == Resize

SpecResolver == ResolverInit /\ [][ResolverNext]_vars

\* ================================================================ claims
Snapshot(i) == history[i + 1]

HasB(s) == \E i \in 1..Len(s) : s[i].type = "blockB"

Identity(s) == [i \in 1..Len(s) |-> <<s[i].id, s[i].type, s[i].label>>]

PositionOf(s, id) ==
    LET b == CHOOSE c \in {s[i] : i \in 1..Len(s)} : c.id = id IN <<b.x, b.y>>

Dist2(p, q) == (p.x - q.x) * (p.x - q.x) + (p.y - q.y) * (p.y - q.y)

\* the edges the Connection Resolver is specified to return for a canvas: one
\* per Dependent, from the first inserted of its nearest Prerequisites
NearestEdges(s) ==
    {<<s[p[1]].id, s[p[2]].id>> :
        p \in {q \in (1..Len(s)) \X (1..Len(s)) :
                  /\ s[q[1]].type = "blockA"
                  /\ s[q[2]].type = "blockB"
                  /\ \A j \in 1..Len(s) :
                        s[j].type = "blockA" =>
                            \/ Dist2(s[q[1]], s[q[2]]) < Dist2(s[j], s[q[2]])
                            \/ /\ Dist2(s[q[1]], s[q[2]]) = Dist2(s[j], s[q[2]])
                               /\ q[1] <= j}}

EdgesAsSpecified(s, prs) ==
    /\ {prs[k] : k \in 1..Len(prs)} = NearestEdges(s)
    /\ Len(prs) = Cardinality(NearestEdges(s))

\* C1 (as stated): in every reachable state the snapshot at the cursor equals
\* the live canvas state, position and showMessage included.
C1_SnapshotEqualsLive == Snapshot(currentIndex) = blocks

\* C1 (amended): in every reachable state the snapshot at the cursor holds the
\* instances of the live canvas in the same order (same id, kind and label).
C1_SnapshotHasLiveInstances == Identity(Snapshot(currentIndex)) = Identity(blocks)

C1_Witness ==
    /\ edits > 0
    /\ Snapshot(currentIndex) # blocks
    /\ blocks # <<>>

\* C2: right after every accepted drop, every undo and every redo the live
\* canvas state equals the snapshot at the cursor.
C2_LiveEqualsSnapshotAfterCommitUndoRedo ==
    lastEvent.op \in {"drop", "undo", "redo"} => blocks = Snapshot(currentIndex)

C2_Witness ==
    /\ lastEvent.op = "undo"
    /\ edits > 0
    /\ blocks # <<>>

\* C3: a drop of Block B while the live canvas holds no Block A raises the
\* MissingDependency alert and leaves blocks, history and currentIndex (and
\* every other part of the session) as they were.
C3_RejectedDropChangesNothing ==
    [][(/\ ~HasA(blocks)
        /\ lastEvent'.op \in {"drop", "MissingDependency"}
        /\ lastEvent'.type = "blockB")
       => /\ lastEvent'.op = "MissingDependency"
          /\ UNCHANGED <<blocks, history, currentIndex, blockRefs, position,
                         pairs, nextId>>]_vars

\* a rejected drop at the empty canvas while a Block A sits beyond the cursor
C3_Witness ==
    /\ lastEvent.op = "MissingDependency"
    /\ currentIndex = 0
    /\ Len(history) > 1
    /\ HasA(history[2])

\* C4: the live canvas and every snapshot that holds a Block B hold a Block A.
C4_DependentHasPrerequisite ==
    /\ HasB(blocks) => HasA(blocks)
    /\ \A i \in 1..Len(history) : HasB(history[i]) => HasA(history[i])

C4_Witness ==
    /\ HasB(blocks)
    /\ \E i \in 1..Len(history) : HasB(history[i])

\* C5: a drop of Block A is accepted in every reachable state; it appends one
\* new Block A at the drop point to the live state, leaves the instances that
\* were there unchanged, appends one snapshot equal to the new live state after
\* the snapshots up to the cursor, and puts the cursor on the last index.
C5_PrerequisiteDropAccepted ==
    /\ [](\A p \in DropPoints :
            ~handleDropBlock(Home, "blockA", p[1], p[2], nextId).alert)
    /\ [][(lastEvent'.op \in {"drop", "MissingDependency"} /\ lastEvent'.type = "blockA")
          => /\ lastEvent'.op = "drop"
             /\ blocks' = Append(blocks,
                    [id |-> lastEvent'.id, type |-> "blockA", label |-> "Block A",
                     x |-> lastEvent'.x, y |-> lastEvent'.y,
                     showMessage |-> "undefined"])
             /\ lastEvent'.id \notin IdsOf(blocks)
             /\ Len(history') = currentIndex + 2
             /\ SubSeq(history', 1, currentIndex + 1) = SubSeq(history, 1, currentIndex + 1)
             /\ history'[Len(history')] = blocks'
             /\ currentIndex' = Len(history') - 1]_vars

C5_Witness ==
    /\ lastEvent.op = "drop"
    /\ lastEvent.type = "blockA"
    /\ Len(blocks) = 2
    /\ blocks[2].x # blocks[2].y

\* C6 (as stated): in every reachable state with currentIndex > 0, undo followed
\* at once by redo gives back the live canvas state, the cursor and the log.
C6_UndoRedoRoundTrip ==
    currentIndex > 0 => handleRedo(handleUndo(Home)) = Home

\* C6 (amended): in every reachable state with currentIndex > 0, undo followed
\* at once by redo gives back the cursor and the log and sets the live canvas
\* to the snapshot at the cursor; that is the live state before the undo when
\* the live state equalled that snapshot.
C6_UndoRedoRestoresSnapshot ==
    currentIndex > 0 =>
        LET r == handleRedo(handleUndo(Home))
        IN  /\ r.history = history
            /\ r.currentIndex = currentIndex
            /\ r.blocks = Snapshot(currentIndex)
            /\ (blocks = Snapshot(currentIndex) => r = Home)

C6_Witness ==
    /\ lastEvent.op = "redo"
    /\ currentIndex > 0
    /\ blocks # <<>>

\* C7: an accepted drop at a cursor c below the last index leaves the log equal
\* to the old snapshots 0..c followed by the one new snapshot, with the cursor
\* at c + 1, the last index; a redo that follows does nothing.
C7_RedoBranchTruncation ==
    [][(lastEvent'.op = "drop" /\ currentIndex < Len(history) - 1)
       => /\ history' = Append(SubSeq(history, 1, currentIndex + 1), blocks')
          /\ currentIndex' = currentIndex + 1
          /\ currentIndex' = Len(history') - 1
          /\ redoDisabled'
          /\ handleRedo(Home') = Home']_vars

\* the second block ever created is alone on the canvas right after its drop:
\* it was dropped at cursor 0 while the first block's snapshot was redo-able
C7_Witness ==
    /\ lastEvent.op = "drop"
    /\ lastEvent.id = 2
    /\ currentIndex = 1
    /\ Len(history) = 2
    /\ Len(blocks) = 1

\* C8: after every event the displayed edges are the nearest-Prerequisite
\* edges of the live canvas state.
C8_EdgesNeverStale == EdgesAsSpecified(blocks, pairs)

\* C9: given the positions of all blocks, updateConnections returns for every
\* Block B exactly one pair (a, b), a being a Block A at minimum distance and,
\* among several at that distance, the first inserted; no pair when there is
\* no Block A; never a pair of two blocks of one kind.
C9_ResolverResult ==
    lastEvent.op = "resize" =>
        /\ EdgesAsSpecified(blocks, pairs)
        /\ \A k \in 1..Len(pairs) :
              \E i, j \in 1..Len(blocks) :
                  /\ blocks[i].id = pairs[k][1]
                  /\ blocks[j].id = pairs[k][2]
                  /\ blocks[i].type = "blockA"
                  /\ blocks[j].type = "blockB"
        /\ (~HasA(blocks) => pairs = <<>>)

\* two Block A at the same distance from a Block B: the edge is the first's
C9_Witness ==
    /\ lastEvent.op = "resize"
    /\ \E i, j, k \in 1..Len(blocks) :
          /\ i < j
          /\ blocks[i].type = "blockA"
          /\ blocks[j].type = "blockA"
          /\ blocks[k].type = "blockB"
          /\ Dist2(blocks[i], blocks[k]) = Dist2(blocks[j], blocks[k])
          /\ Dist2(blocks[i], blocks[k]) > 0
          /\ pairs = <<<<blocks[i].id, blocks[k].id>>>>

\* C10: every hover of a drag puts the dragged block at its position at the
\* start of that drag plus the pointer delta.
C10_HoverMovesFromDragStart ==
    lastEvent.op = "hover" =>
        \A item \in dragItem :
            PositionOf(blocks, item) =
                <<dragStart[1] + lastEvent.x, dragStart[2] + lastEvent.y>>

\* ids a handler can be called with: those ever drawn and one never drawn
AnyIds == 1..(nextId + 1)

Visible(flag) == flag = "true"

\* C11: moveBlock(id, x, y) changes only the position of the instance with that
\* id: the number and order of instances, every other instance and the moved
\* instance's id, kind, label and showMessage stay; with no such id the live
\* state stays as it is. Every hover step changes blocks in that way only.
C11_MoveChangesOnlyPosition ==
    /\ [](\A id \in AnyIds, x \in Coords, y \in Coords :
            LET r == moveBlock(blocks, id, x, y)
            IN  /\ Len(r) = Len(blocks)
                /\ \A i \in 1..Len(blocks) :
                      /\ r[i].id = blocks[i].id
                      /\ r[i].type = blocks[i].type
                      /\ r[i].label = blocks[i].label
                      /\ r[i].showMessage = blocks[i].showMessage
                      /\ blocks[i].id = id => <<r[i].x, r[i].y>> = <<x, y>>
                      /\ blocks[i].id # id => r[i] = blocks[i]
                /\ (id \notin IdsOf(blocks) => r = blocks))
    /\ [][lastEvent'.op = "hover"
          => /\ Len(blocks') = Len(blocks)
             /\ \A i \in 1..Len(blocks) :
                   /\ blocks[i].id \notin dragItem => blocks'[i] = blocks[i]
                   /\ blocks'[i] = [blocks[i] EXCEPT !.x = blocks'[i].x,
                                                     !.y = blocks'[i].y]]_vars

C11_Witness ==
    /\ lastEvent.op = "hover"
    /\ Len(blocks) = 2
    /\ Snapshot(currentIndex) # blocks

\* C12: a hover, the end of a drag and a right-click leave the snapshot log and
\* the cursor as they were; the log grows only by an accepted drop.
C12_MoveAndToggleKeepHistory ==
    [][/\ lastEvent'.op \in {"beginDrag", "hover", "dropOnBlock", "endDrag", "toggle"}
          => UNCHANGED <<history, currentIndex>>
       /\ Len(history') > Len(history) => lastEvent'.op = "drop"]_vars

\* a drag was completed on a block and the live state left its snapshot
C12_Witness ==
    /\ lastEvent.op = "dropOnBlock"
    /\ Snapshot(currentIndex) # blocks
    /\ Len(history) > 1

\* C13: a stored snapshot keeps its content for as long as its index stays in
\* the log: a step that is no accepted drop leaves the log as it was, and an
\* accepted drop leaves the snapshots 0..cursor as they were.
C13_SnapshotsAreIndependent ==
    [][/\ lastEvent'.op # "drop" => history' = history
       /\ lastEvent'.op = "drop" =>
             SubSeq(history', 1, currentIndex + 1) = SubSeq(history, 1, currentIndex + 1)]_vars

\* a redo brought back a recorded snapshot after the live state had been moved
C13_Witness ==
    /\ lastEvent.op = "redo"
    /\ edits > 0
    /\ Len(blocks) = 2
    /\ blocks = Snapshot(currentIndex)
    /\ position[blocks[1].id] # <<blocks[1].x, blocks[1].y>>

\* C14: handleUndo at cursor 0 and handleRedo at the last index change nothing;
\* the Undo button is enabled exactly when the cursor is above 0, the Redo
\* button exactly when it is below the last index, and an enabled button's
\* handler moves the cursor.
C14_HistoryBoundaries ==
    /\ currentIndex = 0 => handleUndo(Home) = Home
    /\ currentIndex = Len(history) - 1 => handleRedo(Home) = Home
    /\ ~undoDisabled <=> currentIndex > 0
    /\ ~redoDisabled <=> currentIndex < Len(history) - 1
    /\ ~undoDisabled => handleUndo(Home).currentIndex = currentIndex - 1
    /\ ~redoDisabled => handleRedo(Home).currentIndex = currentIndex + 1

\* the cursor is on the last index and the live state was moved off its snapshot
C14_Witness ==
    /\ currentIndex = Len(history) - 1
    /\ currentIndex > 0
    /\ redoDisabled
    /\ blocks # Snapshot(currentIndex)

\* C15: the log is never empty, its snapshot 0 is the empty canvas and the
\* cursor is one of its indexes; the session starts at cursor 0 with the one
\* empty snapshot.
C15_LogWellFormed ==
    /\ Len(history) >= 1
    /\ history[1] = <<>>
    /\ currentIndex \in 0..(Len(history) - 1)
    /\ lastEvent.op = "init" =>
          /\ history = <<<<>>>>
          /\ currentIndex = 0
          /\ blocks = <<>>

C15_Witness ==
    /\ Len(history) = 3
    /\ currentIndex = 1
    /\ lastEvent.op = "undo"

C17_DropDropUndoRedo ==
    (/\ edits = 0
     /\ Len(history) = 3
     /\ Len(history[3]) = 2
     /\ history[3][1].type = "blockA"
     /\ history[3][2].type = "blockB")
    => /\ (lastEvent.op = "undo" /\ currentIndex = 1)
            => /\ blocks = <<history[3][1]>>
               /\ blocks = history[2]
               /\ pairs = <<>>
       /\ (lastEvent.op = "redo" /\ currentIndex = 2)
            => /\ blocks = history[3]
               /\ \A i \in 1..2 : blocks[i].showMessage = "undefined"
               /\ pairs = <<<<blocks[1].id, blocks[2].id>>>>

C17_Witness ==
    /\ lastEvent.op = "redo"
    /\ edits = 0
    /\ currentIndex = 2
    /\ Len(blocks) = 2
    /\ blocks[1].type = "blockA"
    /\ blocks[2].type = "blockB"
    /\ pairs = <<<<blocks[1].id, blocks[2].id>>>>

\* C18: toggleMessage(id) flips whether the message of the instance with that
\* id shows and leaves its id, kind, label and position and every other
\* instance as they were; with no such id the live state stays as it is; a
\* second toggle of the same block brings back whether its message shows.
C18_ToggleFlipsOneFlag ==
    \A id \in AnyIds :
        LET r == toggleMessage(blocks, id)
            rr == toggleMessage(r, id)
        IN  /\ Len(r) = Len(blocks)
            /\ \A i \in 1..Len(blocks) :
                  /\ r[i].id = blocks[i].id
                  /\ r[i].type = blocks[i].type
                  /\ r[i].label = blocks[i].label
                  /\ <<r[i].x, r[i].y>> = <<blocks[i].x, blocks[i].y>>
                  /\ blocks[i].id = id =>
                        /\ Visible(r[i].showMessage) = ~Visible(blocks[i].showMessage)
                        /\ Visible(rr[i].showMessage) = Visible(blocks[i].showMessage)
                  /\ blocks[i].id # id => r[i] = blocks[i] /\ rr[i] = blocks[i]
            /\ (id \notin IdsOf(blocks) => r = blocks)

\* a right-click has shown the message of one of two blocks
C18_Witness ==
    /\ lastEvent.op = "toggle"
    /\ Len(blocks) = 2
    /\ \E i, j \in 1..2 :
          /\ blocks[i].id = lastEvent.id
          /\ Visible(blocks[i].showMessage)
          /\ ~Visible(blocks[j].showMessage)

\* the canvas states of the session: the live one and the snapshots
CanvasStates == {blocks} \cup {history[i] : i \in 1..Len(history)}

\* C19: an id has one kind and one label in the live state and all snapshots
\* it appears in, the label being that of the kind; no canvas state holds two
\* instances of one id; every id in use was drawn before.
C19_IdentityStable ==
    /\ \A s1 \in CanvasStates, s2 \in CanvasStates :
          \A i \in 1..Len(s1), j \in 1..Len(s2) :
              s1[i].id = s2[j].id =>
                  /\ s1[i].type = s2[j].type
                  /\ s1[i].label = s2[j].label
    /\ \A s \in CanvasStates :
          \A i \in 1..Len(s) :
              /\ s[i].label = (IF s[i].type = "blockA" THEN "Block A" ELSE "Block B")
              /\ s[i].id \in 1..(nextId - 1)
              /\ \A j \in 1..Len(s) : s[i].id = s[j].id => i = j

C19_Witness ==
    /\ Len(blocks) = 2
    /\ Len(history) = 3
    /\ edits > 0
    /\ blocks # Snapshot(currentIndex)
    /\ blocks[1].type # blocks[2].type

\* C20: snapshot i holds exactly i instances, the ids of a snapshot are a
\* prefix of the ids of every later snapshot, and the live canvas holds
\* exactly currentIndex instances.
C20_LogIsChainOfExtensions ==
    /\ \A i \in 0..(Len(history) - 1) : Len(Snapshot(i)) = i
    /\ \A i \in 0..(Len(history) - 1), j \in 0..(Len(history) - 1) :
          i < j => \A k \in 1..i : Snapshot(i)[k].id = Snapshot(j)[k].id
    /\ Len(blocks) = currentIndex

C20_Witness ==
    /\ Len(history) = 3
    /\ currentIndex = 1
    /\ edits > 0
    /\ lastEvent.op = "undo"

\* C21: an accepted drop appends, right after the cursor, the live canvas of
\* the moment before the drop (with the positions and flags that moves and
\* toggles gave it) followed by the new instance, and makes it the live
\* canvas; an undo taken right after that drop sets the live canvas to the
\* snapshot that was at the cursor before the drop, whatever the live canvas
\* was then.
C21_DropSnapshotsLiveState ==
    [][nextId' # nextId =>
         LET appended == history'[currentIndex' + 1]
             instance == appended[Len(appended)]
             undone   == handleUndo(Home')
         IN  /\ lastEvent'.op = "drop"
             /\ currentIndex' = currentIndex + 1
             /\ Len(history') = currentIndex' + 1
             /\ Len(appended) = Len(blocks) + 1
             /\ SubSeq(appended, 1, Len(blocks)) = blocks
             /\ instance = [id |-> nextId, type |-> lastEvent'.type,
                            label |-> Label(lastEvent'.type),
                            x |-> lastEvent'.x, y |-> lastEvent'.y,
                            showMessage |-> "undefined"]
             /\ blocks' = appended
             /\ SubSeq(history', 1, currentIndex') = SubSeq(history, 1, currentIndex + 1)
             /\ undone.blocks = Snapshot(currentIndex)
             /\ undone.currentIndex = currentIndex
             /\ undone.history = history']_vars

\* the drop was undone, and the canvas it was made on had been moved or
\* toggled since its last commit: the undo gave a canvas other than that one
C21_Witness ==
    /\ lastEvent.op = "undo"
    /\ edits > 0
    /\ Len(history) = currentIndex + 2
    /\ blocks = Snapshot(currentIndex)
    /\ blocks # SubSeq(history[currentIndex + 2], 1, currentIndex)

====
